---- MODULE Spec2Model ----
(***************************************************************************)
(* Token lifecycle of AuthService (src/auth_service.py), the token_required *)
(* decorator and the auth routes (src/auth.py), and the guarded domain      *)
(* routes that forward to the vendor API through get_headers()              *)
(* (src/assets.py, src/asset_service.py, src/lineage.py,                    *)
(* src/lineage_service.py).                                                 *)
(*                                                                          *)
(* Every request is served by one worker thread.  A worker walks through    *)
(* the statements of the handler; the statements that read or write the     *)
(* shared token cache of AuthService, and every outbound HTTP call, are     *)
(* separate steps.  Spec runs one worker (requests served one at a time);   *)
(* SpecThreads runs NumThreads workers on the same AuthService instance.    *)
(***************************************************************************)
EXTENDS Integers, Sequences, FiniteSets, TLC

\* ---------------------------------------------------------------- bounds
MaxItems == 2            \* entities, and relations, of a lineage payload
NumThreads == 2          \* workers of SpecThreads
MaxIssued == 2           \* successful token responses the vendor gives
MaxExpiresIn == 1        \* largest expires_in the vendor sends (seconds)
MaxSeconds == 1          \* the clock is read 0..MaxSeconds s after a whole lifetime

\* ------------------------------------------------------------- constants
DefaultExpiresIn == 3600 \* data.get('expires_in', 3600)

None == <<>>             \* Python None / a missing key
NoExpiry == -1           \* _token_expiry = None

Threads == 1..NumThreads
SeqThreads == {1}

ApiKey == <<"key", 1>>
ClientId == <<"cid", 1>>
UserToken == <<"user", 1>>
AT(s) == <<"at", s>>     \* access_token of the s-th token response
RT(s) == <<"rt", s>>     \* refresh_token of the s-th token response

\* Authorization headers of an inbound request: missing, another scheme,
\* 'Bearer ' followed by nothing, 'Bearer <token>'.
NoHeader == <<>>
InboundHeaders ==
    {NoHeader, <<"Basic", UserToken>>, <<"Bearer", None>>, <<"Bearer", UserToken>>}

\* Outcome of an outbound call: an HTTP status, or 0 when requests raised
\* (connection error, timeout).
Raised == 0
Outcomes == {Raised, 200, 201, 404}

\* response.raise_for_status(): raises for 4xx and 5xx.
RaiseForStatus(o) == o >= 400

\* The call returned a body: requests did not raise and neither did
\* raise_for_status().
CallOk(o) == o # Raised /\ ~RaiseForStatus(o)

\* JSON bodies of a successful token response.  A key may be missing.
TokenBodies ==
    [has_access : BOOLEAN, has_refresh : BOOLEAN,
     expires_in : {None} \cup {<<e>> : e \in 1..MaxExpiresIn}]

GuardedRoutes == {"assets", "lineage"}
Guids == {None, <<"guid", 1>>}

VARIABLES
    api_key,        \* AuthService.api_key
    client_id,      \* AuthService.client_id (and client_secret)
    access_token,   \* AuthService._access_token
    refresh_token,  \* AuthService._refresh_token
    token_expiry,   \* AuthService._token_expiry
    now,            \* datetime.now(), in seconds
    issued,         \* number of successful token responses so far
    src,            \* which token response wrote each cache field
    pc,             \* position of each worker
    req,            \* the inbound request a worker serves
    data,           \* response.json() of the token call in progress
    hdr,            \* value returned by get_headers()
    log,            \* outbound calls of the request, in order
    gat,            \* facts about the get_access_token() invocation
    val,            \* facts about the validate_token() invocation
    resp,           \* response sent to the client
    auth,           \* facts about the authenticate_user() invocation
    payload,        \* raw lineage data returned by get_lineage
    graph,          \* what get_lineage_graph makes of it
    args,           \* JSON body of a create-lineage request
    sent            \* what create_lineage did with it

cred == <<access_token, refresh_token, token_expiry>>
config == <<api_key, client_id>>
lin == <<payload, graph, args, sent>>
vars == <<api_key, client_id, access_token, refresh_token, token_expiry, now,
          issued, src, pc, req, data, hdr, log, gat, val, resp, auth, payload, graph,
          args, sent>>

NoReq == [route |-> "none", header |-> NoHeader, guid |-> None, token |-> None]
NoData == [serial |-> 0, access_token |-> None, refresh_token |-> None,
           expires_in |-> None]
NoGat == [state |-> "none", startValid |-> FALSE, startRefresh |-> FALSE,
          refreshFailed |-> FALSE, mintFailed |-> FALSE, ret |-> None]
NoVal == [called |-> FALSE, token |-> None, outcome |-> Raised, result |-> FALSE,
          user |-> FALSE, handler |-> FALSE]
NoResp == [status |-> 0, code |-> "none"]
NoAuth == [state |-> "none", token |-> None, failed |-> "none", error |-> "none"]
NoHeaders == [content_type |-> "", accept |-> "", api_key |-> None,
              authorization |-> None]

Response(status, code) == [status |-> status, code |-> code]

EmptyPayload == <<>>     \* the payload {}
NoGraph == [error |-> "pending", nodes |-> <<>>, edges |-> <<>>]
NoArgs == <<>>           \* the body {}
NoSent == [status |-> "pending", payload |-> <<>>]

\* AuthService.__init__: the token cache starts empty.
InitAuth ==
    /\ api_key \in {None, ApiKey}
    /\ client_id \in {None, ClientId}
    /\ access_token = None
    /\ refresh_token = None
    /\ token_expiry = NoExpiry
    /\ now = 0
    /\ issued = 0
    /\ src = [at |-> 0, rt |-> 0, exp |-> 0]
    /\ pc = [t \in Threads |-> "idle"]
    /\ req = [t \in Threads |-> NoReq]
    /\ data = [t \in Threads |-> NoData]
    /\ hdr = [t \in Threads |-> NoHeaders]
    /\ log = [t \in Threads |-> <<>>]
    /\ gat = [t \in Threads |-> NoGat]
    /\ val = [t \in Threads |-> NoVal]
    /\ resp = [t \in Threads |-> NoResp]
    /\ auth = [t \in Threads |-> NoAuth]

Init ==
    /\ InitAuth
    /\ payload = EmptyPayload
    /\ graph = NoGraph
    /\ args = NoArgs
    /\ sent = NoSent

\* ------------------------------------------------------------ helpers

\* Variant: the scheme of the header is not looked at.
ExtractToken_anyscheme(h) ==
    IF h # NoHeader THEN h[2] ELSE None

\* auth_header.startswith('Bearer ') and auth_header.split(' ')[1]
ExtractToken(h) ==
    IF h # NoHeader /\ h[1] = "Bearer" THEN h[2] ELSE None

\* Variant: the token is given up one second early.
TokenIsValid_early ==
    access_token # None /\ token_expiry # NoExpiry /\ now < token_expiry - 1

\* self._access_token and self._token_expiry and now < self._token_expiry
TokenIsValid ==
    access_token # None /\ token_expiry # NoExpiry /\ now < token_expiry

BaseHeaders == [content_type |-> "application/json", accept |-> "application/json",
                api_key |-> None, authorization |-> None]

\* Variant: the key is sent in the Authorization header as well.
ApiKeyHeaders_both(k) ==
    [BaseHeaders EXCEPT !.api_key = k, !.authorization = <<"Bearer", k>>]

\* headers['X-Atlan-API-Key'] = self.api_key
ApiKeyHeaders(k) == [BaseHeaders EXCEPT !.api_key = k]

\* headers['Authorization'] = f"Bearer {self.get_access_token()}"
BearerHeaders(tok) == [BaseHeaders EXCEPT !.authorization = <<"Bearer", tok>>]

\* Variant: the lifetime the vendor sends is not looked at.
ExpiresIn_fixed(d) == DefaultExpiresIn

\* data.get('expires_in', 3600)
ExpiresIn(d) == IF d.expires_in = None THEN DefaultExpiresIn ELSE d.expires_in[1]

\* The body the vendor sends with its s-th successful token response.
TokenData(s, b) ==
    [serial |-> s,
     access_token |-> IF b.has_access THEN AT(s) ELSE None,
     refresh_token |-> IF b.has_refresh THEN RT(s) ELSE None,
     expires_in |-> b.expires_in]

Call(kind, arg) == <<kind, arg>>
Calls(t, kinds) == SelectSeq(log[t], LAMBDA c : c[1] \in kinds)
TokenCalls(t) == Calls(t, {"refresh", "mint"})
Kinds(s) == [i \in 1..Len(s) |-> s[i][1]]

\* A new request starts on a worker: everything the last one left is reset.
Begin(t, r) ==
    /\ pc[t] = "idle"
    /\ req' = [req EXCEPT ![t] = r]
    /\ data' = [data EXCEPT ![t] = NoData]
    /\ hdr' = [hdr EXCEPT ![t] = NoHeaders]
    /\ log' = [log EXCEPT ![t] = <<>>]
    /\ gat' = [gat EXCEPT ![t] = NoGat]
    /\ val' = [val EXCEPT ![t] = NoVal]
    /\ auth' = [auth EXCEPT ![t] = NoAuth]

Reply(t, status, code) ==
    /\ resp' = [resp EXCEPT ![t] = Response(status, code)]
    /\ pc' = [pc EXCEPT ![t] = "idle"]

Goto(t, label) == pc' = [pc EXCEPT ![t] = label]

\* ------------------------------------------------------- route layer

\* Variant: the decorator lets every request with a bearer token through
\* to the handler.
token_required_unchecked(t, r, h, g) ==
    /\ Begin(t, [route |-> r, header |-> h, guid |-> g, token |-> None])
    /\ IF ExtractToken(h) = None
       THEN Reply(t, 401, "UNAUTHORIZED")
       ELSE /\ Goto(t, "handler")
            /\ resp' = [resp EXCEPT ![t] = NoResp]
    /\ UNCHANGED <<lin, config, cred, now, issued, src>>

\* token_required, up to the call of validate_token: the bearer token is
\* taken from the Authorization header; without one the answer is 401.
token_required(t, r, h, g) ==
    /\ Begin(t, [route |-> r, header |-> h, guid |-> g, token |-> None])
    /\ IF ExtractToken(h) = None
       THEN Reply(t, 401, "UNAUTHORIZED")
       ELSE /\ Goto(t, "validate_token")
            /\ resp' = [resp EXCEPT ![t] = NoResp]
    /\ UNCHANGED <<lin, config, cred, now, issued, src>>

\* POST /api/auth/validate, up to the call of validate_token.
validate_route(t, tok) ==
    /\ Begin(t, [route |-> "validate", header |-> NoHeader, guid |-> None,
                 token |-> tok])
    /\ IF tok = None
       THEN Reply(t, 400, "BAD_REQUEST")
       ELSE /\ Goto(t, "validate_token")
            /\ resp' = [resp EXCEPT ![t] = NoResp]
    /\ UNCHANGED <<lin, config, cred, now, issued, src>>

\* POST /api/auth/refresh: 400 without refresh_token in the body; else
\* auth_service.refresh_token(...) is called, which AuthService does not
\* define, and the AttributeError is answered 401 REFRESH_FAILED.
refresh_route(t, tok) ==
    /\ Begin(t, [route |-> "refresh", header |-> NoHeader, guid |-> None,
                 token |-> tok])
    /\ IF tok = None
       THEN Reply(t, 400, "BAD_REQUEST")
       ELSE Reply(t, 401, "REFRESH_FAILED")
    /\ UNCHANGED <<lin, config, cred, now, issued, src>>

\* The token validate_token is called with.
TokenOf(r) == IF r.route = "validate" THEN r.token ELSE ExtractToken(r.header)

\* Variant: any successful status counts (response.ok).
ValidateResult_ok(o) == CallOk(o)

\* AuthService.validate_token: status_code == 200, False on any exception.
ValidateResult(o) == o = 200

\* AuthService.validate_token and what its caller does with the result:
\* the validate route answers 200 with it, token_required answers 401
\* when it is False and goes on to get_user_info otherwise.
validate_token(t, o) ==
    /\ pc[t] = "validate_token"
    /\ log' = [log EXCEPT ![t] = Append(@, Call("validate", TokenOf(req[t])))]
    /\ val' = [val EXCEPT ![t] = [@ EXCEPT !.called = TRUE,
                                           !.token = TokenOf(req[t]),
                                           !.outcome = o,
                                           !.result = ValidateResult(o)]]
    /\ IF req[t].route = "validate"
       THEN Reply(t, 200, IF ValidateResult(o) THEN "VALID" ELSE "INVALID")
       ELSE IF ~ValidateResult(o)
            THEN Reply(t, 401, "UNAUTHORIZED")
            ELSE Goto(t, "get_user_info") /\ UNCHANGED resp
    /\ UNCHANGED <<lin, auth, config, cred, now, issued, src, req, data, hdr, gat>>

\* Variant: token_required goes on to the handler although get_user_info
\* failed.
get_user_info_ignored(t, o) ==
    /\ pc[t] = "get_user_info"
    /\ log' = [log EXCEPT ![t] = Append(@, Call("userinfo", ExtractToken(req[t].header)))]
    /\ val' = [val EXCEPT ![t].user = CallOk(o)]
    /\ Goto(t, "handler")
    /\ UNCHANGED <<lin, auth, config, cred, now, issued, src, req, data, hdr, gat, resp>>

\* AuthService.get_user_info(token) called by token_required: a failed
\* call raises, and token_required answers 401.
get_user_info(t, o) ==
    /\ pc[t] = "get_user_info"
    /\ log' = [log EXCEPT ![t] = Append(@, Call("userinfo", ExtractToken(req[t].header)))]
    /\ IF CallOk(o)
       THEN /\ val' = [val EXCEPT ![t].user = TRUE]
            /\ Goto(t, "handler")
            /\ UNCHANGED resp
       ELSE /\ Reply(t, 401, "UNAUTHORIZED")
            /\ UNCHANGED val
    /\ UNCHANGED <<lin, auth, config, cred, now, issued, src, req, data, hdr, gat>>

\* The body of a guarded handler up to the service call: get_assets has
\* no required parameter, get_lineage answers 400 without a guid.
handler(t) ==
    /\ pc[t] = "handler"
    /\ val' = [val EXCEPT ![t].handler = TRUE]
    /\ IF req[t].route = "lineage" /\ req[t].guid = None
       THEN Reply(t, 400, "BAD_REQUEST")
       ELSE Goto(t, "get_headers") /\ UNCHANGED resp
    /\ UNCHANGED <<lin, auth, config, cred, now, issued, src, req, data, hdr, log, gat>>

\* A service method (AssetService.get_assets) entered by a worker whose
\* request passed token_required.
service_call(t) ==
    /\ Begin(t, [route |-> "service", header |-> NoHeader, guid |-> None,
                 token |-> None])
    /\ Goto(t, "get_headers")
    /\ resp' = [resp EXCEPT ![t] = NoResp]
    /\ UNCHANGED <<lin, config, cred, now, issued, src>>

\* Variant: the handler has no except clause of its own, so the error
\* reaches the except clause of token_required.
HandlerError_decorator(t) == Reply(t, 401, "UNAUTHORIZED")

\* The except clause of a domain route handler.
HandlerError(t) == Reply(t, 500, "INTERNAL_SERVER_ERROR")

\* The except clause of the login route: 401 AUTHENTICATION_FAILED with the
\* message of the exception authenticate_user raised after the call named
\* by failed.
LoginError(t, failed, message) ==
    /\ auth' = [auth EXCEPT ![t] = [@ EXCEPT !.state = "raised",
                                              !.failed = failed,
                                              !.error = message]]
    /\ Reply(t, 401, "AUTHENTICATION_FAILED")

\* POST /api/auth/login, up to the call of authenticate_user: 400 when the
\* body lacks username or password.
login(t, credentials) ==
    /\ Begin(t, [route |-> "login", header |-> NoHeader, guid |-> None,
                 token |-> None])
    /\ IF ~credentials
       THEN Reply(t, 400, "BAD_REQUEST")
       ELSE /\ Goto(t, "authenticate_user")
            /\ resp' = [resp EXCEPT ![t] = NoResp]
    /\ UNCHANGED <<lin, config, cred, now, issued, src>>

\* --------------------------------------------------------- AuthService

\* AuthService.authenticate_user: the password-grant call.  A failure
\* raises "Authentication failed"; after a success get_user_info is called
\* with the access_token of the body, and without one asks
\* get_access_token() for the service token.
authenticate_user(t, o, a) ==
    /\ pc[t] = "authenticate_user"
    /\ log' = [log EXCEPT ![t] = Append(@, Call("password", None))]
    /\ IF CallOk(o)
       THEN /\ auth' = [auth EXCEPT ![t] = [@ EXCEPT !.state = "running",
                                                     !.token = IF a THEN UserToken
                                                               ELSE None]]
            /\ Goto(t, IF a THEN "authenticate_user_info" ELSE "get_access_token")
            /\ UNCHANGED resp
       ELSE LoginError(t, "grant", "Authentication failed")
    /\ UNCHANGED <<lin, config, cred, now, issued, src, req, data, hdr, gat, val>>

\* The token get_user_info sends for authenticate_user.
LoginToken(t) == IF auth[t].token # None THEN auth[t].token ELSE gat[t].ret

\* Variant: authenticate_user reports the failed current-user call as
\* "Authentication failed".
authenticate_user_info_wrapped(t, o) ==
    /\ pc[t] = "authenticate_user_info"
    /\ log' = [log EXCEPT ![t] = Append(@, Call("userinfo", LoginToken(t)))]
    /\ IF CallOk(o)
       THEN /\ auth' = [auth EXCEPT ![t].state = "returned"]
            /\ Reply(t, 200, "OK")
       ELSE LoginError(t, "userinfo", "Authentication failed")
    /\ UNCHANGED <<lin, config, cred, now, issued, src, req, data, hdr, gat, val>>

\* AuthService.get_user_info called by authenticate_user: the current-user
\* call.  A failure raises "Failed to get user information", which the
\* except clause of authenticate_user does not catch; a success ends the
\* login with 200.
authenticate_user_info(t, o) ==
    /\ pc[t] = "authenticate_user_info"
    /\ log' = [log EXCEPT ![t] = Append(@, Call("userinfo", LoginToken(t)))]
    /\ IF CallOk(o)
       THEN /\ auth' = [auth EXCEPT ![t].state = "returned"]
            /\ Reply(t, 200, "OK")
       ELSE LoginError(t, "userinfo", "Failed to get user information")
    /\ UNCHANGED <<lin, config, cred, now, issued, src, req, data, hdr, gat, val>>

\* Variant: OAuth is preferred whenever a client id is configured.
get_headers_oauth_first(t) ==
    /\ pc[t] = "get_headers"
    /\ IF api_key # None /\ client_id = None
       THEN /\ hdr' = [hdr EXCEPT ![t] = ApiKeyHeaders(api_key)]
            /\ Goto(t, "domain_call")
       ELSE /\ Goto(t, "get_access_token")
            /\ UNCHANGED hdr
    /\ UNCHANGED <<lin, auth, config, cred, now, issued, src, req, data, log, gat, val, resp>>

\* AuthService.get_headers: the API key when one is configured; the
\* bearer token of get_access_token() otherwise.
get_headers(t) ==
    /\ pc[t] = "get_headers"
    /\ IF api_key # None
       THEN /\ hdr' = [hdr EXCEPT ![t] = ApiKeyHeaders(api_key)]
            /\ Goto(t, "domain_call")
       ELSE /\ Goto(t, "get_access_token")
            /\ UNCHANGED hdr
    /\ UNCHANGED <<lin, auth, config, cred, now, issued, src, req, data, log, gat, val, resp>>

\* Where get_access_token() returns to: get_headers, called by a service
\* method, which builds the header for the domain call; or get_user_info,
\* called by authenticate_user without a token.
AfterToken(t) == IF req[t].route = "login" THEN "authenticate_user_info"
                 ELSE "domain_call"
Headers(t, tok) == IF req[t].route = "login" THEN hdr[t] ELSE BearerHeaders(tok)

\* get_access_token() returns tok to its caller.
Return(t, tok) ==
    /\ gat' = [gat EXCEPT ![t] = [@ EXCEPT !.state = "returned", !.ret = tok]]
    /\ hdr' = [hdr EXCEPT ![t] = Headers(t, tok)]
    /\ Goto(t, AfterToken(t))

\* Variant: a stale token is always replaced by a mint, the refresh token
\* is not looked at.
get_access_token_norefresh(t) ==
    /\ pc[t] = "get_access_token"
    /\ IF TokenIsValid
       THEN /\ gat' = [gat EXCEPT ![t] = [@ EXCEPT !.state = "returned",
                                                    !.startValid = TRUE,
                                                    !.startRefresh = refresh_token # None,
                                                    !.ret = access_token]]
            /\ hdr' = [hdr EXCEPT ![t] = Headers(t, access_token)]
            /\ Goto(t, AfterToken(t))
       ELSE /\ gat' = [gat EXCEPT ![t] = [@ EXCEPT !.state = "running",
                                                    !.startRefresh = refresh_token # None]]
            /\ Goto(t, "mint_call")
            /\ UNCHANGED hdr
    /\ UNCHANGED <<lin, auth, config, cred, now, issued, src, req, data, log, val, resp>>

\* Variant: single flight, a caller waits while another worker is inside
\* get_access_token().
get_access_token_singleflight(t) ==
    /\ pc[t] = "get_access_token"
    /\ \A u \in Threads \ {t} : gat[u].state # "running"
    /\ IF TokenIsValid
       THEN /\ gat' = [gat EXCEPT ![t] = [@ EXCEPT !.state = "returned",
                                                    !.startValid = TRUE,
                                                    !.startRefresh = refresh_token # None,
                                                    !.ret = access_token]]
            /\ hdr' = [hdr EXCEPT ![t] = Headers(t, access_token)]
            /\ Goto(t, AfterToken(t))
       ELSE /\ gat' = [gat EXCEPT ![t] = [@ EXCEPT !.state = "running",
                                                    !.startRefresh = refresh_token # None]]
            /\ Goto(t, IF refresh_token # None THEN "refresh_call" ELSE "mint_call")
            /\ UNCHANGED hdr
    /\ UNCHANGED <<lin, auth, config, cred, now, issued, src, req, data, log, val, resp>>

\* AuthService.get_access_token, the tests of lines 53 and 57: return the
\* cached token while it is valid, else refresh when there is a refresh
\* token, else mint.
get_access_token(t) ==
    /\ pc[t] = "get_access_token"
    /\ IF TokenIsValid
       THEN /\ gat' = [gat EXCEPT ![t] = [@ EXCEPT !.state = "returned",
                                                    !.startValid = TRUE,
                                                    !.startRefresh = refresh_token # None,
                                                    !.ret = access_token]]
            /\ hdr' = [hdr EXCEPT ![t] = Headers(t, access_token)]
            /\ Goto(t, AfterToken(t))
       ELSE /\ gat' = [gat EXCEPT ![t] = [@ EXCEPT !.state = "running",
                                                    !.startRefresh = refresh_token # None]]
            /\ Goto(t, IF refresh_token # None THEN "refresh_call" ELSE "mint_call")
            /\ UNCHANGED hdr
    /\ UNCHANGED <<lin, auth, config, cred, now, issued, src, req, data, log, val, resp>>

\* _refresh_access_token: requests.post with grant_type refresh_token.
refresh_call(t) ==
    /\ pc[t] = "refresh_call"
    /\ log' = [log EXCEPT ![t] = Append(@, Call("refresh", None))]
    /\ Goto(t, "refresh_wait")
    /\ UNCHANGED <<lin, auth, config, cred, now, issued, src, req, data, hdr, gat, val, resp>>

\* Variant: a failed refresh is not caught in get_access_token and reaches
\* the route handler.
refresh_response_surfaced(t, o, b) ==
    /\ pc[t] = "refresh_wait"
    /\ IF CallOk(o)
       THEN /\ issued < MaxIssued
            /\ issued' = issued + 1
            /\ data' = [data EXCEPT ![t] = TokenData(issued + 1, b)]
            /\ access_token' = data'[t].access_token
            /\ src' = [src EXCEPT !.at = issued + 1]
            /\ Goto(t, "refresh_store_refresh")
            /\ UNCHANGED <<gat, resp>>
       ELSE /\ gat' = [gat EXCEPT ![t] = [@ EXCEPT !.state = "raised",
                                                    !.refreshFailed = TRUE]]
            /\ HandlerError(t)
            /\ UNCHANGED <<access_token, issued, src, data>>
    /\ UNCHANGED <<lin, auth, config, refresh_token, token_expiry, now, req, hdr, log, val>>

\* Variant: a failed refresh drops the refresh token it was made with.
refresh_response_clears(t, o, b) ==
    /\ pc[t] = "refresh_wait"
    /\ IF CallOk(o)
       THEN /\ issued < MaxIssued
            /\ issued' = issued + 1
            /\ data' = [data EXCEPT ![t] = TokenData(issued + 1, b)]
            /\ access_token' = data'[t].access_token
            /\ src' = [src EXCEPT !.at = issued + 1]
            /\ Goto(t, "refresh_store_refresh")
            /\ UNCHANGED <<gat, refresh_token>>
       ELSE /\ gat' = [gat EXCEPT ![t].refreshFailed = TRUE]
            /\ refresh_token' = None
            /\ Goto(t, "mint_call")
            /\ UNCHANGED <<access_token, issued, src, data>>
    /\ UNCHANGED <<lin, auth, config, token_expiry, now, req, hdr, log, val, resp>>

\* _refresh_access_token: the response.  A failure raises and is caught in
\* get_access_token, which goes on to mint; a success stores access_token.
refresh_response(t, o, b) ==
    /\ pc[t] = "refresh_wait"
    /\ IF CallOk(o)
       THEN /\ issued < MaxIssued
            /\ issued' = issued + 1
            /\ data' = [data EXCEPT ![t] = TokenData(issued + 1, b)]
            /\ access_token' = data'[t].access_token
            /\ src' = [src EXCEPT !.at = issued + 1]
            /\ Goto(t, "refresh_store_refresh")
            /\ UNCHANGED gat
       ELSE /\ gat' = [gat EXCEPT ![t].refreshFailed = TRUE]
            /\ Goto(t, "mint_call")
            /\ UNCHANGED <<access_token, issued, src, data>>
    /\ UNCHANGED <<lin, auth, config, refresh_token, token_expiry, now, req, hdr, log, val, resp>>

\* _refresh_access_token: self._refresh_token = data.get('refresh_token')
refresh_store_refresh(t) ==
    /\ pc[t] = "refresh_store_refresh"
    /\ refresh_token' = data[t].refresh_token
    /\ src' = [src EXCEPT !.rt = data[t].serial]
    /\ Goto(t, "refresh_store_expiry")
    /\ UNCHANGED <<lin, auth, config, access_token, token_expiry, now, issued, req, data,
                   hdr, log, gat, val, resp>>

\* _refresh_access_token: self._token_expiry = now + expires_in
refresh_store_expiry(t) ==
    /\ pc[t] = "refresh_store_expiry"
    /\ token_expiry' = now + ExpiresIn(data[t])
    /\ src' = [src EXCEPT !.exp = data[t].serial]
    /\ Goto(t, "refresh_return")
    /\ UNCHANGED <<lin, auth, config, access_token, refresh_token, now, issued, req, data,
                   hdr, log, gat, val, resp>>

\* Variant: the return after a successful refresh is missing, so the mint
\* follows.
refresh_return_fallthrough(t) ==
    /\ pc[t] = "refresh_return"
    /\ Goto(t, "mint_call")
    /\ UNCHANGED <<lin, auth, config, cred, now, issued, src, req, data, hdr, log, gat, val, resp>>

\* get_access_token: return self._access_token after the refresh.
refresh_return(t) ==
    /\ pc[t] = "refresh_return"
    /\ Return(t, access_token)
    /\ UNCHANGED <<lin, auth, config, cred, now, issued, src, req, data, log, val, resp>>

\* _get_new_access_token: requests.post with grant_type client_credentials.
mint_call(t) ==
    /\ pc[t] = "mint_call"
    /\ log' = [log EXCEPT ![t] = Append(@, Call("mint", client_id))]
    /\ Goto(t, "mint_wait")
    /\ UNCHANGED <<lin, auth, config, cred, now, issued, src, req, data, hdr, gat, val, resp>>

\* Variant: a failed mint is swallowed and the cached token is returned.
mint_response_swallowed(t, o, b) ==
    /\ pc[t] = "mint_wait"
    /\ IF CallOk(o)
       THEN /\ issued < MaxIssued
            /\ issued' = issued + 1
            /\ data' = [data EXCEPT ![t] = TokenData(issued + 1, b)]
            /\ access_token' = data'[t].access_token
            /\ src' = [src EXCEPT !.at = issued + 1]
            /\ Goto(t, "mint_store_refresh")
            /\ UNCHANGED <<gat, hdr>>
       ELSE /\ gat' = [gat EXCEPT ![t] = [@ EXCEPT !.state = "returned",
                                                    !.mintFailed = TRUE,
                                                    !.ret = access_token]]
            /\ hdr' = [hdr EXCEPT ![t] = Headers(t, access_token)]
            /\ Goto(t, AfterToken(t))
            /\ UNCHANGED <<access_token, issued, src, data>>
    /\ UNCHANGED <<lin, auth, config, refresh_token, token_expiry, now, req, log, val, resp>>

\* _get_new_access_token: the response.  A failure raises "Authentication
\* failed" through get_access_token, get_headers and the service method to
\* the route handler; a success stores access_token.
mint_response(t, o, b) ==
    /\ pc[t] = "mint_wait"
    /\ IF CallOk(o)
       THEN /\ issued < MaxIssued
            /\ issued' = issued + 1
            /\ data' = [data EXCEPT ![t] = TokenData(issued + 1, b)]
            /\ access_token' = data'[t].access_token
            /\ src' = [src EXCEPT !.at = issued + 1]
            /\ Goto(t, "mint_store_refresh")
            /\ UNCHANGED <<gat, resp, auth>>
       ELSE /\ gat' = [gat EXCEPT ![t] = [@ EXCEPT !.state = "raised",
                                                    !.mintFailed = TRUE]]
            /\ IF req[t].route = "login"
               THEN LoginError(t, "mint", "Authentication failed")
               ELSE HandlerError(t) /\ UNCHANGED auth
            /\ UNCHANGED <<access_token, issued, src, data>>
    /\ UNCHANGED <<lin, config, refresh_token, token_expiry, now, req, hdr, log, val>>

\* _get_new_access_token: self._refresh_token = data.get('refresh_token')
mint_store_refresh(t) ==
    /\ pc[t] = "mint_store_refresh"
    /\ refresh_token' = data[t].refresh_token
    /\ src' = [src EXCEPT !.rt = data[t].serial]
    /\ Goto(t, "mint_store_expiry")
    /\ UNCHANGED <<lin, auth, config, access_token, token_expiry, now, issued, req, data,
                   hdr, log, gat, val, resp>>

\* _get_new_access_token: self._token_expiry = now + expires_in
mint_store_expiry(t) ==
    /\ pc[t] = "mint_store_expiry"
    /\ token_expiry' = now + ExpiresIn(data[t])
    /\ src' = [src EXCEPT !.exp = data[t].serial]
    /\ Goto(t, "mint_return")
    /\ UNCHANGED <<lin, auth, config, access_token, refresh_token, now, issued, req, data,
                   hdr, log, gat, val, resp>>

\* get_access_token: return self._access_token after the mint.
mint_return(t) ==
    /\ pc[t] = "mint_return"
    /\ Return(t, access_token)
    /\ UNCHANGED <<lin, auth, config, cred, now, issued, src, req, data, log, val, resp>>

\* ------------------------------------------------------ domain services

\* Variant: a failed domain call is sent a second time.
domain_call_retry(t, o) ==
    /\ pc[t] = "domain_call"
    /\ log' = [log EXCEPT ![t] = Append(@, Call("domain", hdr[t]))]
    /\ IF CallOk(o) THEN Reply(t, 200, "OK")
       ELSE IF Calls(t, {"domain"}) = <<>> THEN UNCHANGED <<pc, resp>>
       ELSE HandlerError(t)
    /\ UNCHANGED <<lin, auth, config, cred, now, issued, src, req, data, hdr, gat, val>>

\* AssetService.get_assets / LineageService.get_lineage: one requests.get
\* with the headers of get_headers(); the route answers 200 with the body,
\* or 500 when the call failed.
domain_call(t, o) ==
    /\ pc[t] = "domain_call"
    /\ log' = [log EXCEPT ![t] = Append(@, Call("domain", hdr[t]))]
    /\ IF CallOk(o) THEN Reply(t, 200, "OK") ELSE HandlerError(t)
    /\ UNCHANGED <<lin, auth, config, cred, now, issued, src, req, data, hdr, gat, val>>

\* ---------------------------------------------------------------- clock

\* The instants at which datetime.now() is observed: up to MaxSeconds
\* seconds after the start, and the same after one default lifetime.
Instants == {s + e * DefaultExpiresIn : s \in 0..MaxSeconds, e \in 0..1}

\* Time passes, by any amount.
Tick(n) ==
    /\ n > now
    /\ now' = n
    /\ UNCHANGED <<lin, auth, config, cred, issued, src, pc, req, data, hdr, log, gat, val, resp>>

\* ------------------------------------------------------- specifications

Step(t) ==
    \/ \E r \in GuardedRoutes, h \in InboundHeaders, g \in Guids :
          (r = "assets" => g = None) /\ token_required(t, r, h, g)
    \/ \E tok \in {None, UserToken} : validate_route(t, tok)
    \/ \E tok \in {None, UserToken} : refresh_route(t, tok)
    \/ \E c \in BOOLEAN : login(t, c)
    \/ \E o \in Outcomes, a \in BOOLEAN : authenticate_user(t, o, a)
    \/ \E o \in Outcomes : authenticate_user_info(t, o)
    \/ \E o \in Outcomes : validate_token(t, o)
    \/ \E o \in Outcomes : get_user_info(t, o)
    \/ handler(t)
    \/ get_headers(t)
    \/ get_access_token(t)
    \/ refresh_call(t)
    \/ \E o \in Outcomes, b \in TokenBodies : refresh_response(t, o, b)
    \/ refresh_store_refresh(t)
    \/ refresh_store_expiry(t)
    \/ refresh_return(t)
    \/ mint_call(t)
    \/ \E o \in Outcomes, b \in TokenBodies : mint_response(t, o, b)
    \/ mint_store_refresh(t)
    \/ mint_store_expiry(t)
    \/ mint_return(t)
    \/ \E o \in Outcomes : domain_call(t, o)

Clock == \E n \in Instants : Tick(n)

\* Requests served one at a time.
Next == Clock \/ \E t \in SeqThreads : Step(t)
Spec == Init /\ [][Next]_vars

\* The part of a request that touches the shared AuthService: from the
\* service method on.
ServiceStep(t) ==
    \/ service_call(t)
    \/ get_headers(t)
    \/ get_access_token(t)
    \/ refresh_call(t)
    \/ \E o \in Outcomes, b \in TokenBodies : refresh_response(t, o, b)
    \/ refresh_store_refresh(t)
    \/ refresh_store_expiry(t)
    \/ refresh_return(t)
    \/ mint_call(t)
    \/ \E o \in Outcomes, b \in TokenBodies : mint_response(t, o, b)
    \/ mint_store_refresh(t)
    \/ mint_store_expiry(t)
    \/ mint_return(t)
    \/ \E o \in Outcomes : domain_call(t, o)

\* Service methods called by NumThreads workers at once.
NextThreads == Clock \/ \E t \in Threads : ServiceStep(t)
SpecThreads == Init /\ [][NextThreads]_vars

\* Token responses without expires_in: no time passes while the workers
\* race, so the lifetime of the new token plays no part.
RaceBodies == {b \in TokenBodies : b.expires_in = None}

\* Each worker enters one service method, all of them at once, and gets
\* its headers from get_headers().
RaceStep(t) ==
    \/ resp[t] = NoResp /\ req[t] = NoReq /\ service_call(t)
    \/ get_headers(t)
    \/ get_access_token(t)
    \/ refresh_call(t)
    \/ \E o \in Outcomes, b \in RaceBodies : refresh_response(t, o, b)
    \/ refresh_store_refresh(t)
    \/ refresh_store_expiry(t)
    \/ refresh_return(t)
    \/ mint_call(t)
    \/ \E o \in Outcomes, b \in RaceBodies : mint_response(t, o, b)
    \/ mint_store_refresh(t)
    \/ mint_store_expiry(t)
    \/ mint_return(t)

\* The moment the workers arrive, in OAuth mode: the process has just
\* started and the cache is empty, or the token of an earlier mint
\* (expires_in = 1, at second 0) has just expired and its refresh token is
\* cached.
InitRace ==
    /\ api_key = None
    /\ client_id = ClientId
    /\ \/ /\ access_token = None
          /\ refresh_token = None
          /\ token_expiry = NoExpiry
          /\ now = 0
          /\ issued = 0
          /\ src = [at |-> 0, rt |-> 0, exp |-> 0]
       \/ /\ access_token = AT(1)
          /\ refresh_token = RT(1)
          /\ token_expiry = 1
          /\ now = 1
          /\ issued = 1
          /\ src = [at |-> 1, rt |-> 1, exp |-> 1]
    /\ pc = [t \in Threads |-> "idle"]
    /\ req = [t \in Threads |-> NoReq]
    /\ data = [t \in Threads |-> NoData]
    /\ hdr = [t \in Threads |-> NoHeaders]
    /\ log = [t \in Threads |-> <<>>]
    /\ gat = [t \in Threads |-> NoGat]
    /\ val = [t \in Threads |-> NoVal]
    /\ resp = [t \in Threads |-> NoResp]
    /\ auth = [t \in Threads |-> NoAuth]
    /\ payload = EmptyPayload
    /\ graph = NoGraph
    /\ args = NoArgs
    /\ sent = NoSent

\* No time passes while the workers are served.
NextRace == \E t \in Threads : RaceStep(t)
SpecRace == InitRace /\ [][NextRace]_vars

TypeOK ==
    /\ api_key \in {None, ApiKey}
    /\ now \in Instants
    /\ issued \in 0..MaxIssued
    /\ token_expiry \in {NoExpiry} \cup {n + e : n \in Instants, e \in (1..MaxExpiresIn) \cup {DefaultExpiresIn}}

\* ------------------------------------------- lineage graph projection

JsonNull == "<null>"     \* a key present with the JSON value null
Absent == "<absent>"     \* marks a key that is left out of a mapping

\* dict.get(key, default)
Get(d, k, default) == IF k \in DOMAIN d THEN d[k] ELSE default

\* Mappings of the vendor payload; a field given as Absent is left out.
Field(k, v) == IF v = Absent THEN <<>> ELSE (k :> v)
Attributes(n) == Field("name", n)
Entity(g, ty, hasAttrs, n) ==
    Field("guid", g) @@ Field("typeName", ty)
        @@ (IF hasAttrs THEN ("attributes" :> Attributes(n)) ELSE <<>>)
Relation(f, to, ty) ==
    Field("fromEntityGuid", f) @@ Field("toEntityGuid", to)
        @@ Field("relationshipType", ty)

Names == {Absent, JsonNull, "", "orders"}
RelationTypes == {Absent, JsonNull, "", "DataFlow"}

\* Entities: complete ones with every kind of name, and ones that lack
\* guid, typeName or attributes.
Entities ==
    {Entity("a1", "Table", TRUE, n) : n \in Names}
    \cup {Entity("a2", "View", TRUE, "users"),
          Entity(Absent, "Table", TRUE, "orders"),
          Entity("a1", Absent, TRUE, "orders"),
          Entity("a1", "Table", FALSE, Absent)}

\* Relations: complete ones with every kind of relationshipType, and ones
\* that lack an endpoint.
Relations ==
    {Relation("a1", "a2", ty) : ty \in RelationTypes}
    \cup {Relation("a2", "a1", "DataFlow"),
          Relation(Absent, "a2", "DataFlow"),
          Relation("a1", Absent, "DataFlow")}

Lists(S) == UNION {[1..n -> S] : n \in 0..MaxItems}

\* Payloads: each of the two keys present, with a list, or missing.
Payloads ==
    {[entities |-> es, relations |-> rs] : es \in Lists(Entities), rs \in Lists(Relations)}
    \cup {[entities |-> es] : es \in Lists(Entities)}
    \cup {[relations |-> rs] : rs \in Lists(Relations)}
    \cup {EmptyPayload}

\* entity['guid'], entity['attributes'], entity['typeName'] raise KeyError
\* when the key is missing.
NodeOk(e) == {"guid", "attributes", "typeName"} \subseteq DOMAIN e

\* Variant: no default, a missing name gives a null label.
NodeLabel_nodefault(e) == Get(e.attributes, "name", JsonNull)

\* entity['attributes'].get('name', 'Unknown')
NodeLabel(e) == Get(e.attributes, "name", "Unknown")

\* Variant: the type is taken from the guid.
Node_typeguid(e) ==
    [id |-> e.guid, label |-> NodeLabel(e), type |-> e.guid, data |-> e]

\* The node of an entity.
Node(e) ==
    [id |-> e.guid, label |-> NodeLabel(e), type |-> e.typeName, data |-> e]

\* relation['fromEntityGuid'], relation['toEntityGuid'] raise KeyError when
\* the key is missing.
EdgeOk(r) == {"fromEntityGuid", "toEntityGuid"} \subseteq DOMAIN r

\* relation.get('relationshipType', 'Unknown')
EdgeLabel(r) == Get(r, "relationshipType", "Unknown")

\* The edge of a relation.
Edge(r) ==
    [id |-> r.fromEntityGuid \o "_" \o r.toEntityGuid,
     source |-> r.fromEntityGuid,
     target |-> r.toEntityGuid,
     label |-> EdgeLabel(r),
     data |-> r]

Items(error, items) == [error |-> error, items |-> items]

\* Variant: an entity whose guid already has a node is skipped.
RECURSIVE ProcessNodes_dedup(_, _)
ProcessNodes_dedup(es, acc) ==
    IF es = <<>> THEN Items("none", acc)
    ELSE IF ~NodeOk(Head(es)) THEN Items("KeyError", acc)
    ELSE IF \E i \in 1..Len(acc) : acc[i].id = Head(es).guid
         THEN ProcessNodes_dedup(Tail(es), acc)
         ELSE ProcessNodes_dedup(Tail(es), Append(acc, Node(Head(es))))

\* for entity in lineage_data['entities']: graph['nodes'].append(node)
RECURSIVE ProcessNodes(_, _)
ProcessNodes(es, acc) ==
    IF es = <<>> THEN Items("none", acc)
    ELSE IF ~NodeOk(Head(es)) THEN Items("KeyError", acc)
    ELSE ProcessNodes(Tail(es), Append(acc, Node(Head(es))))

\* for relation in lineage_data['relations']: graph['edges'].append(edge)
RECURSIVE ProcessEdges(_, _)
ProcessEdges(rs, acc) ==
    IF rs = <<>> THEN Items("none", acc)
    ELSE IF ~EdgeOk(Head(rs)) THEN Items("KeyError", acc)
    ELSE ProcessEdges(Tail(rs), Append(acc, Edge(Head(rs))))

Graph(error, nodes, edges) == [error |-> error, nodes |-> nodes, edges |-> edges]

\* Variant: the two keys are read without the membership test.
get_lineage_graph_required(p) ==
    IF ~({"entities", "relations"} \subseteq DOMAIN p) THEN Graph("KeyError", <<>>, <<>>)
    ELSE LET ns == ProcessNodes(p.entities, <<>>)
             es == ProcessEdges(p.relations, <<>>)
         IN  IF ns.error # "none" THEN Graph(ns.error, <<>>, <<>>)
             ELSE IF es.error # "none" THEN Graph(es.error, <<>>, <<>>)
             ELSE Graph("none", ns.items, es.items)

\* LineageService.get_lineage_graph, the transformation of the raw data:
\* the nodes first, then the edges; a KeyError ends it without a graph.
get_lineage_graph(p) ==
    LET ns == IF "entities" \in DOMAIN p THEN ProcessNodes(p.entities, <<>>)
              ELSE Items("none", <<>>)
    IN  IF ns.error # "none" THEN Graph(ns.error, <<>>, <<>>)
        ELSE LET es == IF "relations" \in DOMAIN p
                       THEN ProcessEdges(p.relations, <<>>)
                       ELSE Items("none", <<>>)
             IN  IF es.error # "none" THEN Graph(es.error, <<>>, <<>>)
                 ELSE Graph("none", ns.items, es.items)

\* get_lineage returned the raw data in payload; it is transformed.
project ==
    /\ graph = NoGraph
    /\ graph' = get_lineage_graph(payload)
    /\ UNCHANGED <<config, cred, now, issued, src, pc, req, data, hdr, log, gat,
                   val, resp, auth, payload, args, sent>>

\* Any payload the vendor may return, transformed once.
InitLineage ==
    /\ InitAuth
    /\ api_key = None
    /\ client_id = ClientId
    /\ payload \in Payloads
    /\ graph = NoGraph
    /\ args = NoArgs
    /\ sent = NoSent

NextLineage == project
SpecLineage == InitLineage /\ [][NextLineage]_vars

\* ------------------------------------------------------ lineage creation

\* JSON bodies of POST /api/lineage: each key left out, or with a value;
\* the process keys also with the empty string.
CreateBodies ==
    {Field("fromEntityGuid", f) @@ Field("toEntityGuid", to)
        @@ Field("processGuid", pg) @@ Field("processName", pn)
        @@ Field("processType", pt) :
        f \in {Absent, "a1"}, to \in {Absent, "a2"},
        pg \in {Absent, "", "p1"}, pn \in {Absent, "", "etl"},
        pt \in {Absent, "", "Process"}}

\* Python truth value of an optional string: None and '' are false.
Truthy(v) == v \notin {Absent, JsonNull, ""}

\* Variant: a named process is preferred to an existing process guid.
CreatePayload_namefirst(from_guid, to_guid, process_guid, process_name, process_type) ==
    LET ends == ("fromEntityGuid" :> from_guid) @@ ("toEntityGuid" :> to_guid)
    IN  IF Truthy(process_name) /\ Truthy(process_type)
        THEN ends @@ ("process" :>
                 [typeName |-> process_type,
                  attributes |->
                     [name |-> process_name,
                      qualifiedName |-> process_name \o "_" \o from_guid
                                            \o "_" \o to_guid]])
        ELSE IF Truthy(process_guid)
        THEN ends @@ ("processGuid" :> process_guid)
        ELSE ends

\* LineageService.create_lineage, the payload: the process guid when there
\* is one, else a new process when name and type are both there, else the
\* two ends alone.
CreatePayload(from_guid, to_guid, process_guid, process_name, process_type) ==
    LET ends == ("fromEntityGuid" :> from_guid) @@ ("toEntityGuid" :> to_guid)
    IN  IF Truthy(process_guid)
        THEN ends @@ ("processGuid" :> process_guid)
        ELSE IF Truthy(process_name) /\ Truthy(process_type)
        THEN ends @@ ("process" :>
                 [typeName |-> process_type,
                  attributes |->
                     [name |-> process_name,
                      qualifiedName |-> process_name \o "_" \o from_guid
                                            \o "_" \o to_guid]])
        ELSE ends

\* The body of the create_lineage route and the payload the service posts:
\* 400 without a body or without one of the two ends.
create_lineage ==
    /\ sent = NoSent
    /\ sent' = IF args = NoArgs
                  \/ "fromEntityGuid" \notin DOMAIN args
                  \/ "toEntityGuid" \notin DOMAIN args
               THEN [status |-> "BAD_REQUEST", payload |-> <<>>]
               ELSE [status |-> "posted",
                     payload |-> CreatePayload(args.fromEntityGuid,
                                               args.toEntityGuid,
                                               Get(args, "processGuid", Absent),
                                               Get(args, "processName", Absent),
                                               Get(args, "processType", Absent))]
    /\ UNCHANGED <<config, cred, now, issued, src, pc, req, data, hdr, log, gat,
                   val, resp, auth, payload, graph, args>>

\* Any body a client may post, handled once.
InitCreate ==
    /\ InitAuth
    /\ api_key = None
    /\ client_id = ClientId
    /\ payload = EmptyPayload
    /\ graph = NoGraph
    /\ args \in CreateBodies
    /\ sent = NoSent

NextCreate == create_lineage
SpecCreate == InitCreate /\ [][NextCreate]_vars

\* ---------------------------------------------------------------- claims

Finished(t) == gat[t].state \in {"returned", "raised"}
Has(t, kinds) == Calls(t, kinds) # <<>>

\* C1: a get_access_token() call made while access_token is present and
\* now < expiry returns the cached access_token, issues no outbound call and
\* leaves the token cache as it is.
C1_CacheHit ==
    [][\A t \in Threads :
         (/\ pc[t] = "get_access_token"
          /\ pc'[t] # "get_access_token"
          /\ access_token # None
          /\ token_expiry # NoExpiry
          /\ now < token_expiry)
         => (/\ gat'[t].state = "returned"
             /\ gat'[t].ret = access_token
             /\ log'[t] = log[t]
             /\ cred' = cred
             /\ pc'[t] \in {"domain_call", "authenticate_user_info"})]_vars

\* A cache hit on a token that an earlier request obtained.
C1_Witness ==
    \E t \in Threads :
        /\ pc[t] = "domain_call"
        /\ gat[t].startValid
        /\ gat[t].ret # None
        /\ gat[t].ret = access_token
        /\ log[t] = <<Call("validate", UserToken), Call("userinfo", UserToken)>>

\* C2: an invocation that finds the token stale and a refresh token present
\* issues the refresh call first and exactly once; a mint call can only
\* follow it.
C2_RefreshBeforeMint ==
    \A t \in Threads :
        (gat[t].state # "none" /\ ~gat[t].startValid /\ gat[t].startRefresh)
        => /\ Kinds(TokenCalls(t)) \in {<<>>, <<"refresh">>, <<"refresh", "mint">>}
           /\ (TokenCalls(t) = <<>>) => (pc[t] = "refresh_call")
           /\ Finished(t) => Len(Calls(t, {"refresh"})) = 1

C2_Witness ==
    \E t \in Threads :
        /\ gat[t].state = "returned"
        /\ ~gat[t].startValid
        /\ gat[t].startRefresh
        /\ Kinds(TokenCalls(t)) = <<"refresh">>

\* C3: a failed refresh is followed by a mint in the same invocation, is
\* never what the invocation raises, and when the mint succeeds the value
\* returned is the access token of the mint response.
C3_RefreshFallback ==
    \A t \in Threads :
        gat[t].refreshFailed
        => /\ pc[t] = "mint_call" \/ Kinds(TokenCalls(t)) = <<"refresh", "mint">>
           /\ gat[t].state = "raised" => gat[t].mintFailed
           /\ gat[t].state = "returned"
                => /\ data[t].serial = issued
                   /\ gat[t].ret = data[t].access_token

C3_Witness ==
    \E t \in Threads :
        /\ gat[t].refreshFailed
        /\ gat[t].state = "returned"
        /\ gat[t].ret = AT(issued)

\* C4: a failed mint ends the invocation with an error: no token is
\* returned, no header is built and no further outbound call is made.
C4_MintFailureTerminal ==
    \A t \in Threads :
        gat[t].mintFailed
        => /\ gat[t].state = "raised"
           /\ gat[t].ret = None
           /\ hdr[t] = NoHeaders
           /\ pc[t] = "idle"
           /\ log[t][Len(log[t])][1] = "mint"
           /\ Len(Calls(t, {"mint"})) = 1

C4_Witness ==
    \E t \in Threads :
        /\ gat[t].mintFailed
        /\ gat[t].refreshFailed
        /\ pc[t] = "idle"

\* C5 as stated: a stale invocation issues exactly one outbound call, a
\* valid one none.
C5_Original ==
    \A t \in Threads :
        Finished(t)
        => Len(TokenCalls(t)) = IF gat[t].startValid THEN 0 ELSE 1

\* C5 amended: a stale invocation issues exactly one outbound call, or
\* exactly two (the refresh, then the mint) when its refresh attempt
\* failed; a valid one none.
C5_CallCount ==
    \A t \in Threads :
        Finished(t)
        => Len(TokenCalls(t)) = IF gat[t].startValid THEN 0
                                ELSE IF gat[t].refreshFailed THEN 2 ELSE 1

C5_Witness ==
    \E t \in Threads :
        /\ Finished(t)
        /\ ~gat[t].startValid
        /\ gat[t].refreshFailed
        /\ Len(TokenCalls(t)) = 2

\* C6: with a static API key get_headers() returns the X-Atlan-API-Key
\* header without calling get_access_token(), without any outbound call
\* and without touching the token cache.
C6_ApiKeyMode ==
    [][\A t \in Threads :
         (api_key # None /\ pc[t] = "get_headers" /\ pc'[t] # "get_headers")
         => (/\ hdr'[t] = [content_type |-> "application/json",
                            accept |-> "application/json",
                            api_key |-> api_key, authorization |-> None]
             /\ pc'[t] = "domain_call"
             /\ gat'[t].state = "none"
             /\ log'[t] = log[t]
             /\ cred' = cred)]_vars

C6_Witness ==
    \E t \in Threads :
        /\ api_key # None
        /\ client_id = None
        /\ pc[t] = "domain_call"
        /\ hdr[t] = ApiKeyHeaders(api_key)
        /\ ~Has(t, {"refresh", "mint"})

\* C7: validate_token issues one GET and returns true exactly when the
\* status is 200; every other outcome, an exception included, gives false
\* and nothing is raised to the validate route.
C7_ValidateToken ==
    \A t \in Threads :
        val[t].called
        => /\ val[t].result <=> (val[t].outcome = 200)
           /\ Len(Calls(t, {"validate"})) = 1
           /\ req[t].route = "validate"
                => resp[t] = Response(200, IF val[t].outcome = 200 THEN "VALID"
                                           ELSE "INVALID")

C7_Witness ==
    \E t \in Threads :
        /\ val[t].called
        /\ val[t].outcome = Raised
        /\ req[t].route = "validate"
        /\ resp[t] = Response(200, "INVALID")

\* C8 as stated: once all concurrent calls have completed, access_token,
\* refresh_token and expiry come from one single token response.
C8_SingleResponse ==
    (\A t \in Threads : pc[t] = "idle")
    => (src.at = src.rt /\ src.rt = src.exp)

\* C9 as stated: a failed mint while a domain request is served is answered
\* with a 401.
C9_Original ==
    \A t \in Threads :
        (req[t].route \in GuardedRoutes /\ gat[t].mintFailed /\ pc[t] = "idle")
        => resp[t].status = 401

\* C9 amended: a failed mint while a domain request is served is answered
\* with 500 INTERNAL_SERVER_ERROR, the answer of the handler's own except
\* clause.
C9_MintFailureIs500 ==
    \A t \in Threads :
        (req[t].route \in GuardedRoutes /\ gat[t].mintFailed /\ pc[t] = "idle")
        => resp[t] = Response(500, "INTERNAL_SERVER_ERROR")

C9_Witness ==
    \E t \in Threads :
        /\ gat[t].mintFailed
        /\ req[t].route = "lineage"
        /\ resp[t].status = 500

\* C10: on a guarded route the handler body, and any call made for it, runs
\* only after validate_token returned true and get_user_info succeeded for
\* the bearer token of the request; otherwise the answer is 401
\* UNAUTHORIZED and no domain call is made.
C10_ValidationPrecedes ==
    \A t \in Threads :
        req[t].route \in GuardedRoutes
        => /\ (val[t].handler \/ Has(t, {"domain", "refresh", "mint"}))
                => /\ val[t].result
                   /\ val[t].user
                   /\ val[t].token = ExtractToken(req[t].header)
                   /\ SubSeq(log[t], 1, 2) =
                         <<Call("validate", ExtractToken(req[t].header)),
                           Call("userinfo", ExtractToken(req[t].header))>>
           /\ (pc[t] = "idle" /\ ~val[t].handler)
                => /\ resp[t] = Response(401, "UNAUTHORIZED")
                   /\ ~Has(t, {"domain", "refresh", "mint"})

C10_Witness ==
    \E t \in Threads :
        /\ req[t].route \in GuardedRoutes
        /\ val[t].handler
        /\ Has(t, {"domain"})
        /\ resp[t].status = 200

Projected == graph # NoGraph
EntitiesOf(p) == IF "entities" \in DOMAIN p THEN p.entities ELSE <<>>
RelationsOf(p) == IF "relations" \in DOMAIN p THEN p.relations ELSE <<>>

\* The payload has the fields of the data model: every entity has guid,
\* typeName and attributes, every relation has its two endpoints.
WellFormed(p) ==
    /\ \A i \in 1..Len(EntitiesOf(p)) :
          /\ "guid" \in DOMAIN EntitiesOf(p)[i]
          /\ "typeName" \in DOMAIN EntitiesOf(p)[i]
          /\ "attributes" \in DOMAIN EntitiesOf(p)[i]
    /\ \A i \in 1..Len(RelationsOf(p)) :
          /\ "fromEntityGuid" \in DOMAIN RelationsOf(p)[i]
          /\ "toEntityGuid" \in DOMAIN RelationsOf(p)[i]

\* C12: the projection has one node per entity and one edge per relation,
\* the i-th node made from the i-th entity and the i-th edge from the i-th
\* relation; nothing is dropped, merged or reordered.
C12_OneToOne ==
    (Projected /\ WellFormed(payload))
    => /\ graph.error = "none"
       /\ Len(graph.nodes) = Len(EntitiesOf(payload))
       /\ Len(graph.edges) = Len(RelationsOf(payload))
       /\ \A i \in 1..Len(graph.nodes) : graph.nodes[i].data = EntitiesOf(payload)[i]
       /\ \A i \in 1..Len(graph.edges) : graph.edges[i].data = RelationsOf(payload)[i]

\* Two entities with the same guid and two relations with the same
\* endpoints, all four kept.
C12_Witness ==
    /\ Projected
    /\ Len(EntitiesOf(payload)) = 2
    /\ Len(RelationsOf(payload)) = 2
    /\ WellFormed(payload)
    /\ payload.entities[1] # payload.entities[2]
    /\ payload.entities[1].guid = payload.entities[2].guid
    /\ payload.relations[1].fromEntityGuid = payload.relations[2].fromEntityGuid
    /\ payload.relations[1].toEntityGuid = payload.relations[2].toEntityGuid
    /\ Len(graph.nodes) = 2
    /\ Len(graph.edges) = 2

\* C13: without an entities key the nodes are empty, without a relations
\* key the edges are empty, and {} gives empty nodes and edges; none of
\* these is an error.
C13_MissingCollections ==
    (Projected /\ WellFormed(payload))
    => /\ "entities" \notin DOMAIN payload
            => (graph.error = "none" /\ graph.nodes = <<>>)
       /\ "relations" \notin DOMAIN payload
            => (graph.error = "none" /\ graph.edges = <<>>)
       /\ payload = EmptyPayload
            => graph = [error |-> "none", nodes |-> <<>>, edges |-> <<>>]

C13_Witness ==
    /\ Projected
    /\ "entities" \notin DOMAIN payload
    /\ "relations" \in DOMAIN payload
    /\ graph.error = "none"
    /\ graph.nodes = <<>>
    /\ Len(graph.edges) = 1

\* C14: a missing name key gives the node label "Unknown", a missing
\* relationshipType key gives the edge label "Unknown"; a key present with
\* a text value gives that value.
C14_LabelDefault ==
    (Projected /\ WellFormed(payload))
    => /\ \A i \in 1..Len(EntitiesOf(payload)) :
             LET a == payload.entities[i].attributes
             IN  /\ "name" \notin DOMAIN a => graph.nodes[i].label = "Unknown"
                 /\ ("name" \in DOMAIN a /\ a.name # JsonNull)
                       => graph.nodes[i].label = a.name
       /\ \A i \in 1..Len(RelationsOf(payload)) :
             LET r == payload.relations[i]
             IN  /\ "relationshipType" \notin DOMAIN r
                       => graph.edges[i].label = "Unknown"
                 /\ ("relationshipType" \in DOMAIN r /\ r.relationshipType # JsonNull)
                       => graph.edges[i].label = r.relationshipType

C14_Witness ==
    /\ Projected
    /\ Len(EntitiesOf(payload)) = 2
    /\ Len(RelationsOf(payload)) = 1
    /\ WellFormed(payload)
    /\ "name" \notin DOMAIN payload.entities[1].attributes
    /\ "name" \in DOMAIN payload.entities[2].attributes
    /\ "relationshipType" \notin DOMAIN payload.relations[1]
    /\ graph.nodes[1].label = "Unknown"
    /\ graph.nodes[2].label = "orders"
    /\ graph.edges[1].label = "Unknown"

\* C15: node id, type and data are the entity's guid, typeName and the
\* entity itself; edge id is fromEntityGuid, "_", toEntityGuid, source and
\* target are the two endpoints and data is the relation itself.
C15_FieldMapping ==
    (Projected /\ WellFormed(payload))
    => /\ \A i \in 1..Len(EntitiesOf(payload)) :
             /\ graph.nodes[i].id = payload.entities[i].guid
             /\ graph.nodes[i].type = payload.entities[i].typeName
             /\ graph.nodes[i].data = payload.entities[i]
       /\ \A i \in 1..Len(RelationsOf(payload)) :
             LET r == payload.relations[i]
             IN  /\ graph.edges[i].id = r.fromEntityGuid \o "_" \o r.toEntityGuid
                 /\ graph.edges[i].source = r.fromEntityGuid
                 /\ graph.edges[i].target = r.toEntityGuid
                 /\ graph.edges[i].data = r

\* The example: one table "orders" and one DataFlow relation a1 -> a2.
C15_Witness ==
    /\ payload = [entities |-> <<[guid |-> "a1", typeName |-> "Table",
                                  attributes |-> [name |-> "orders"]]>>,
                  relations |-> <<[fromEntityGuid |-> "a1", toEntityGuid |-> "a2",
                                   relationshipType |-> "DataFlow"]>>]
    /\ graph.error = "none"
    /\ graph.nodes = <<[id |-> "a1", label |-> "orders", type |-> "Table",
                        data |-> payload.entities[1]]>>
    /\ graph.edges = <<[id |-> "a1_a2", source |-> "a1", target |-> "a2",
                        label |-> "DataFlow", data |-> payload.relations[1]]>>

\* C20 as stated: the projection of a payload whose entities or relations
\* lack fields returns a graph and never raises.
C20_Total ==
    Projected => graph.error = "none"

\* C16: the headers get_headers() returns have Content-Type and Accept
\* application/json and exactly one authentication header: the API key
\* when one is configured, else the bearer token get_access_token()
\* returned.
C16_Headers ==
    \A t \in Threads :
        hdr[t] # NoHeaders
        => /\ hdr[t].content_type = "application/json"
           /\ hdr[t].accept = "application/json"
           /\ (hdr[t].api_key = None) # (hdr[t].authorization = None)
           /\ IF api_key # None
              THEN hdr[t].api_key = api_key
              ELSE /\ gat[t].state = "returned"
                   /\ hdr[t].authorization = <<"Bearer", gat[t].ret>>

\* A bearer header built from a minted token.
C16_Witness ==
    /\ api_key = None
    /\ gat[1].state = "returned"
    /\ gat[1].ret = AT(1)
    /\ hdr[1].authorization = <<"Bearer", AT(1)>>
    /\ hdr[1].api_key = None

\* C17: the step that stores the expiry after a successful mint or refresh
\* sets it to the clock of that step plus the response's expires_in, 3600
\* when the response has none; a cached token is returned exactly when
\* now < expiry.
C17_Expiry ==
    [][\A t \in Threads :
          /\ (pc[t] \in {"mint_store_expiry", "refresh_store_expiry"} /\ pc'[t] # pc[t])
                => token_expiry' = now + (IF data[t].expires_in = None THEN 3600
                                          ELSE data[t].expires_in[1])
          /\ (pc[t] = "get_access_token" /\ pc'[t] # pc[t] /\ access_token # None)
                => (gat'[t].startValid <=> now < token_expiry)]_vars

\* At now = expiry the cached token is stale: the invocation goes on to a
\* token call.
C17_Witness ==
    /\ access_token # None
    /\ now = token_expiry
    /\ gat[1].state = "running"
    /\ ~gat[1].startValid
    /\ pc[1] \in {"refresh_call", "mint_call"}

\* C19 as stated: after a successful refresh-grant call the cache holds the
\* response's values, get_access_token() returns the new access token
\* without a mint call, and the state is VALID.
C19_SuccessfulRefresh ==
    [][\A t \in Threads :
          (pc[t] = "refresh_return" /\ pc'[t] # pc[t])
          => /\ access_token = data[t].access_token
             /\ refresh_token = data[t].refresh_token
             /\ gat'[t].ret = AT(data[t].serial)
             /\ ~Has(t, {"mint"})
             /\ now < token_expiry => TokenIsValid]_vars

\* C11 as stated: a login whose password-grant call or current-user call
\* failed ends with the error "Authentication failed" raised by
\* authenticate_user, and neither call was made twice.
C11_Original ==
    \A t \in Threads :
        (auth[t].state = "raised" /\ auth[t].failed \in {"grant", "userinfo"})
        => /\ auth[t].error = "Authentication failed"
           /\ Len(Calls(t, {"password"})) = 1
           /\ Len(Calls(t, {"userinfo"})) <= 1

\* C11 amended: a failed password-grant call makes authenticate_user raise
\* "Authentication failed"; a failed current-user call makes it raise
\* "Failed to get user information"; the login route answers both with 401
\* AUTHENTICATION_FAILED, and neither call was made twice.
C11_LoginFailure ==
    \A t \in Threads :
        (auth[t].state = "raised" /\ auth[t].failed \in {"grant", "userinfo"})
        => /\ auth[t].failed = "grant"
                => /\ auth[t].error = "Authentication failed"
                   /\ Kinds(log[t]) = <<"password">>
           /\ auth[t].failed = "userinfo"
                => /\ auth[t].error = "Failed to get user information"
                   /\ Len(Calls(t, {"userinfo"})) = 1
                   /\ log[t][Len(log[t])][1] = "userinfo"
           /\ Len(Calls(t, {"password"})) = 1
           /\ resp[t] = Response(401, "AUTHENTICATION_FAILED")
           /\ pc[t] = "idle"

\* A login whose password grant succeeded and whose current-user call
\* failed.
C11_Witness ==
    /\ auth[1].state = "raised"
    /\ auth[1].failed = "userinfo"
    /\ log[1] = <<Call("password", None), Call("userinfo", UserToken)>>
    /\ resp[1] = Response(401, "AUTHENTICATION_FAILED")

\* C18 as stated: the cache is empty at construction, and no step of
\* validate_token, of a login, of get_user_info with a token, or of
\* get_headers in API-key mode changes access_token, refresh_token or
\* expiry.
C18_Frame ==
    /\ cred = <<None, None, NoExpiry>>
    /\ [][\A t \in Threads :
             (/\ pc'[t] # pc[t]
              /\ \/ pc[t] \in {"validate_token", "get_user_info"}
                 \/ req[t].route = "login" /\ pc[t] # "idle"
                 \/ pc[t] = "get_headers" /\ api_key # None)
             => cred' = cred]_vars

\* C21 as stated: a name, or a relationshipType, that is present but null
\* or empty gives the label "Unknown".
C21_LabelOr ==
    (Projected /\ WellFormed(payload))
    => /\ \A i \in 1..Len(EntitiesOf(payload)) :
             LET a == payload.entities[i].attributes
             IN  ("name" \in DOMAIN a /\ a.name \in {JsonNull, ""})
                    => graph.nodes[i].label = "Unknown"
       /\ \A i \in 1..Len(RelationsOf(payload)) :
             LET r == payload.relations[i]
             IN  ("relationshipType" \in DOMAIN r /\ r.relationshipType \in {JsonNull, ""})
                    => graph.edges[i].label = "Unknown"

\* C23: in one request each kind of outbound call is issued at most once;
\* the domain call is the last thing the request does, whatever its
\* outcome, and its failure is answered with an error.
C23_NoRetry ==
    \A t \in Threads :
        /\ \A k \in {"refresh", "mint", "domain", "password", "validate", "userinfo"} :
              Len(Calls(t, {k})) <= 1
        /\ Has(t, {"domain"})
              => /\ pc[t] = "idle"
                 /\ log[t][Len(log[t])][1] = "domain"
                 /\ resp[t] \in {Response(200, "OK"),
                                 Response(500, "INTERNAL_SERVER_ERROR")}

\* A failed domain call: answered 500 after one call.
C23_Witness ==
    /\ Len(Calls(1, {"domain"})) = 1
    /\ Len(Calls(1, {"refresh"})) = 1
    /\ Len(Calls(1, {"mint"})) = 1
    /\ resp[1] = Response(500, "INTERNAL_SERVER_ERROR")
    /\ pc[1] = "idle"

\* C28: the step that receives a failed refresh-grant or credential-grant
\* response leaves access_token, refresh_token and expiry as they were;
\* after a failed refresh and a failed mint the refresh token the
\* invocation started with is still there.
C28_FailureKeepsState ==
    [][\A t \in Threads :
          /\ (pc[t] = "refresh_wait" /\ gat'[t].refreshFailed) => cred' = cred
          /\ (pc[t] = "mint_wait" /\ gat'[t].mintFailed)
                => /\ cred' = cred
                   /\ gat[t].refreshFailed => refresh_token' # None]_vars

C28_Witness ==
    /\ gat[1].refreshFailed
    /\ gat[1].mintFailed
    /\ access_token # None
    /\ refresh_token # None
    /\ token_expiry # NoExpiry
    /\ pc[1] = "idle"

\* C29 as stated: whatever get_access_token() returns is a present token,
\* and an Authorization header always carries one.
C29_TokenPresent ==
    \A t \in Threads :
        /\ gat[t].state = "returned" => gat[t].ret # None
        /\ hdr[t].authorization # None => hdr[t].authorization[2] # None

\* C30: a request to a guarded route without an Authorization header, or
\* with one of another scheme, is answered 401 UNAUTHORIZED; no outbound
\* call is made, validate_token is not called and the handler does not
\* run.
C30_MissingToken ==
    \A t \in Threads :
        (/\ req[t].route \in GuardedRoutes
         /\ (req[t].header = NoHeader \/ req[t].header[1] # "Bearer"))
        => /\ pc[t] = "idle"
           /\ resp[t] = Response(401, "UNAUTHORIZED")
           /\ log[t] = <<>>
           /\ ~val[t].called
           /\ ~val[t].handler

C30_Witness ==
    /\ req[1].route = "lineage"
    /\ req[1].header = <<"Basic", UserToken>>
    /\ resp[1] = Response(401, "UNAUTHORIZED")
    /\ log[1] = <<>>
    /\ pc[1] = "idle"

\* A process field of the request that holds a value.
Given(k) == k \in DOMAIN args /\ args[k] # ""

\* C27: the posted payload has fromEntityGuid and toEntityGuid and one of
\* three shapes: processGuid alone when a process guid is given; else a
\* process with typeName, name and qualifiedName name_from_to when name
\* and type are both given; else neither.
C27_CreatePayload ==
    sent.status = "posted"
    => LET p == sent.payload
       IN  /\ p.fromEntityGuid = args.fromEntityGuid
           /\ p.toEntityGuid = args.toEntityGuid
           /\ IF Given("processGuid")
              THEN /\ DOMAIN p = {"fromEntityGuid", "toEntityGuid", "processGuid"}
                   /\ p.processGuid = args.processGuid
              ELSE IF Given("processName") /\ Given("processType")
              THEN /\ DOMAIN p = {"fromEntityGuid", "toEntityGuid", "process"}
                   /\ p.process =
                        [typeName |-> args.processType,
                         attributes |->
                            [name |-> args.processName,
                             qualifiedName |->
                                args.processName \o "_" \o args.fromEntityGuid
                                    \o "_" \o args.toEntityGuid]]
              ELSE DOMAIN p = {"fromEntityGuid", "toEntityGuid"}

\* A process guid given together with name and type: the guid alone is
\* posted.
C27_Witness ==
    /\ args = [fromEntityGuid |-> "a1", toEntityGuid |-> "a2", processGuid |-> "p1",
               processName |-> "etl", processType |-> "Process"]
    /\ sent = [status |-> "posted",
               payload |-> [fromEntityGuid |-> "a1", toEntityGuid |-> "a2",
                            processGuid |-> "p1"]]

\* C22 as stated: a request answered 400 BAD_REQUEST has made no outbound
\* call.
C22_Original ==
    \A t \in Threads :
        resp[t] = Response(400, "BAD_REQUEST") => log[t] = <<>>

\* C22 amended: a request answered 400 BAD_REQUEST has made no token-grant
\* and no domain call; on the login, validate and refresh routes it has
\* made no outbound call at all, on a guarded route exactly the
\* validate_token and get_user_info calls of token_required.
C22_ValidationFirst ==
    \A t \in Threads :
        resp[t] = Response(400, "BAD_REQUEST")
        => /\ pc[t] = "idle"
           /\ ~Has(t, {"domain", "refresh", "mint", "password"})
           /\ IF req[t].route \in GuardedRoutes
              THEN log[t] = <<Call("validate", req[t].header[2]),
                              Call("userinfo", req[t].header[2])>>
              ELSE log[t] = <<>>

\* Lineage asked without a guid: 400 after the two calls of token_required.
C22_Witness ==
    /\ resp[1] = Response(400, "BAD_REQUEST")
    /\ req[1].route = "lineage"
    /\ req[1].guid = None
    /\ Len(log[1]) = 2

\* C24 as stated: a login issues one password-grant call and then, after
\* its success, one current-user call with the access token of the grant
\* response; no other call.
C24_LoginSequence ==
    \A t \in Threads :
        req[t].route = "login"
        => /\ Kinds(log[t]) \in {<<>>, <<"password">>, <<"password", "userinfo">>}
           /\ Has(t, {"userinfo"})
                => /\ auth[t].token # None
                   /\ log[t][2] = Call("userinfo", auth[t].token)
           /\ auth[t].state = "returned" => Has(t, {"userinfo"})

\* C26 as stated: the refresh route answers 400 only without a
\* refresh_token; with one it makes the refresh call and answers 200, or
\* 401 REFRESH_FAILED when that call failed.
C26_RefreshRoute ==
    \A t \in Threads :
        (req[t].route = "refresh" /\ pc[t] = "idle")
        => IF req[t].token = None
           THEN resp[t] = Response(400, "BAD_REQUEST")
           ELSE /\ Has(t, {"refresh"})
                /\ resp[t] \in {Response(200, "OK"), Response(401, "REFRESH_FAILED")}

\* C25: nothing holds a caller back or coalesces it: a worker that is at
\* the validity test while the cache is stale can always go on to its own
\* refresh or mint call, whatever the other workers are doing, and every
\* worker that found the cache stale has issued, or is about to issue, a
\* token call of its own.
C25_RedundantCalls ==
    \A t \in Threads :
        /\ (pc[t] = "get_access_token" /\ ~TokenIsValid)
              => ENABLED (get_access_token(t) /\ pc'[t] \in {"refresh_call", "mint_call"})
        /\ (gat[t].state # "none" /\ ~gat[t].startValid)
              => (TokenCalls(t) # <<>> \/ pc[t] \in {"refresh_call", "mint_call"})

\* Two credential-grant calls in flight at the same instant for one empty
\* cache.
C25_Witness ==
    /\ issued = 0
    /\ pc[1] = "mint_wait"
    /\ pc[2] = "mint_wait"
    /\ Kinds(TokenCalls(1)) = <<"mint">>
    /\ Kinds(TokenCalls(2)) = <<"mint">>

====
